---- MODULE Spec2Model ----
(***************************************************************************)
(* The simulation core of the desktop water-pond pet (src/桌宠.py): the     *)
(* entity update rules (WaterDrop, RainDrop, Ripple, Fish, LotusLeaf,      *)
(* Star), GameState with its spawn operations and update_all, the time of  *)
(* day functions of Renderer, and the frame loop of DesktopPet.            *)
(*                                                                         *)
(* Python floats are modelled in fixed point.  Every float constant of the *)
(* program is a multiple of the unit chosen for its field, so the integer  *)
(* arithmetic below is the real arithmetic the code approximates; the      *)
(* rounding errors of binary floating point (of the order of 1e-13 here)   *)
(* are not modelled, except in the sun position, where one decides the     *)
(* pixel row drawn (see SunSine).                                          *)
(*   WaterDrop.y / velocity_y   quarter pixels      (DropQ   = 4)          *)
(*   Ripple.radius / max_radius tenths of a pixel   (RippleQ = 10)         *)
(*   Fish.x                     tenths of a pixel   (FishXQ  = 10)         *)
(*   Fish.y / jump_velocity     twentieths of a px  (FishYQ  = 20)         *)
(*   phases (swim, wobble, ..)  hundredths of a rad (PhaseQ  = 100)        *)
(*   time.time()                clock ticks, ClockHz per second            *)
(*   sun position               hundredths of a px  (SunQ    = 100),       *)
(*                              rounded down, see SunSine                  *)
(* RainDrop.y and speed are integer valued in the program.                 *)
(***************************************************************************)
EXTENDS Integers, Sequences, FiniteSets, TLC

(* ------------------------------ Config ------------------------------- *)
WINDOW_WIDTH == 320
WINDOW_HEIGHT == 320
DROP_MIN_SIZE == 4
DROP_MAX_SIZE == 10
RAIN_MIN_LENGTH == 8
RAIN_MAX_LENGTH == 18
RAIN_MIN_SPEED == 4
RAIN_MAX_SPEED == 8
RIPPLE_MAX_RADIUS == 30
FISH_COUNT == 2
FISH_PROBABILITY == 200
EASTER_EGG_DAYS == 3
DROP_LIFETIME == 40
SUN_RISE_HOUR == 6
SUN_SET_HOUR == 18
RAIN_PROBABILITY == 25
RIPPLE_PROBABILITY == 60
\* DesktopPet.help_timer at construction
HELP_FRAMES == 180

(* fixed-point units *)
DropQ == 4
RippleQ == 10
FishXQ == 10
FishYQ == 20
PhaseQ == 100
ClockHz == 4

\* DROP_INITIAL_VELOCITY = -7.0 and DROP_GRAVITY = 0.25, in quarter pixels
DROP_INITIAL_VELOCITY == -28
DROP_GRAVITY == 1
\* RIPPLE_EXPAND_SPEED = 0.8 and Ripple.radius = 2.0, in tenths of a pixel
RIPPLE_EXPAND_SPEED == 8
RIPPLE_START_RADIUS == 20
RIPPLE_START_ALPHA == 200
\* Fish: jump_velocity = -6.0 and += 0.3 in twentieths; x += 0.3 in tenths;
\* swim_offset += 0.05 in hundredths of a radian; sin(..) * 3
FISH_JUMP_VELOCITY == -120
FISH_JUMP_GRAVITY == 6
FISH_SWIM_SPEED == 3
FISH_SWIM_PHASE_STEP == 5
FISH_SWIM_AMPLITUDE == 3
FISH_MARGIN == 60
LEAF_WOBBLE_STEP == 2
STAR_TWINKLE_STEP == 8
STAR_COUNT == 15
\* 24 * 60 * 60 seconds
SecondsPerDay == 24 * 60 * 60

(* ------------------------------ bounds ------------------------------- *)
\* number of update_all calls a run of each specification makes at most
RainTicks == 120
ClockTicks == 12
DropTicks == 45
\* water drops in the list at most, and the ticks before which spawn_drop
\* is called
MaxDrops == 1
DropSpawnWindow == 2
\* the lifetimes 1..MaxLife of the WaterDrop objects drawn
MaxLife == 3
RippleTicks == 40
\* ripples in the list at most, and the ticks before which spawn_ripple is
\* called
MaxRipples == 1
RippleSpawnWindow == 2
FishTicks == 74
\* jumps started in a run at most
MaxJumps == 2
\* rain drops spawned in a run at most
MaxRain == 2
\* spawn_rain is called only before this many update_all calls were made
RainSpawnWindow == 2
\* iterations of the frame loop in a run at most
PetTicks == 2
AmbientTicks == 2
SkyTicks == 1
TrialTicks == 1
\* hours the wall clock advances in a run at most
MaxHours == 1
\* events posted in a run at most
MaxEvents == 2
DecayTicks == 118
\* spawn operations called in a run of SpecDecay at most, all of them before
\* this many update_all calls were made
MaxTransient == 3
DecaySpawnWindow == 2

(* ------------------------------ state -------------------------------- *)
VARIABLES
    start_time,      \* GameState.start_time, clock ticks
    run_days,        \* GameState.run_days
    mountain_show,   \* GameState.mountain_show
    is_dragging,     \* GameState.is_dragging
    drag_offset_x,   \* GameState.drag_offset_x
    drag_offset_y,   \* GameState.drag_offset_y
    drops,           \* GameState.drops : Seq(WaterDrop)
    rain,            \* GameState.rain : Seq(RainDrop)
    ripples,         \* GameState.ripples : Seq(Ripple)
    fish,            \* GameState.fish : Seq(Fish)
    lotus_leaves,    \* GameState.lotus_leaves : Seq(LotusLeaf)
    stars,           \* GameState.stars : Seq(Star)
    now,             \* the last reading of time.time() (history)
    ticks,           \* number of update_all calls so far (history)
    hist,            \* history of what the operations did: the numbers of
                     \* rain drops spawned and removed, of ripples made from
                     \* rain and of jumps started, and the drops and ripples
                     \* the last update_all removed, as their last update()
                     \* left them
    running,         \* DesktopPet.running
    show_help,       \* DesktopPet.show_help
    help_timer,      \* DesktopPet.help_timer
    win_x,           \* DesktopPet.win_x
    win_y,           \* DesktopPet.win_y
    pc,              \* the position of DesktopPet.run in its loop
    queue,           \* the events pygame.event.get() will return
    clock_hour,      \* datetime.now().hour
    view,            \* what the last calls of get_time_of_day,
                     \* calc_sun_position, get_sky_color and draw_sun
                     \* returned or drew
    loop             \* history of the frame loop: the calls of the current
                     \* iteration in order, the number of iterations begun,
                     \* of events posted and of events the last
                     \* handle_events applied, the numbers of ambient
                     \* trials and spawns, the values the last update drew

\* the fields of DesktopPet and its surroundings
petvars == <<running, show_help, help_timer, win_x, win_y, pc, queue,
             clock_hour, view, loop>>

vars == <<start_time, run_days, mountain_show, is_dragging, drag_offset_x,
          drag_offset_y, drops, rain, ripples, fish, lotus_leaves, stars,
          now, ticks, hist, running, show_help, help_timer, win_x, win_y,
          pc, queue, clock_hour, view, loop>>

(* ----------------------------- helpers ------------------------------- *)
Max(a, b) == IF a >= b THEN a ELSE b

\* Python's int(): truncation toward zero of the quotient n / d, d > 0
IntTrunc(n, d) == IF n >= 0 THEN n \div d ELSE -((-n) \div d)

\* random.randint(lo, hi): every integer of lo..hi, both ends included
RandInt(lo, hi) == lo .. hi

\* the outcomes of randint(lo, hi) that a run enumerates: both ends and
\* the value next to the low end
Draws(lo, hi) == {lo, lo + 1, hi}

\* the half turn pi, in hundredths of a radian
HalfTurn == 314

\* math.sin on [0, pi], scaled by amp (Bhaskara's rational approximation,
\* exact at 0, pi/6, pi/2, 5pi/6 and pi), p in hundredths of a radian
SinArc(p, amp) ==
    (16 * p * (HalfTurn - p) * amp)
        \div (5 * HalfTurn * HalfTurn - 4 * p * (HalfTurn - p))

\* amp * math.sin(phase), phase >= 0 in hundredths of a radian
Sin(phase, amp) ==
    LET p == phase % (2 * HalfTurn)
    IN  IF p <= HalfTurn THEN SinArc(p, amp) ELSE -SinArc(p - HalfTurn, amp)

(* ----------------------------- WaterDrop ----------------------------- *)
\* WaterDrop(x, y, size, velocity_y, lifetime), y and velocity_y in quarter
\* pixels.  made is a history field no operation reads or changes: the
\* update_all count, y, velocity and lifetime at construction.
NewWaterDrop(x, y, size, velocity_y, lifetime, tick) ==
    [x |-> x, y |-> y, size |-> size, velocity_y |-> velocity_y,
     lifetime |-> lifetime,
     made |-> [tick |-> tick, y |-> y, velocity_y |-> velocity_y,
               lifetime |-> lifetime]]

\* faulty variant: y moves by the velocity after gravity was added
WaterDropStep_GravityFirst(d) ==
    [d EXCEPT !.y = d.y + d.velocity_y + DROP_GRAVITY,
              !.velocity_y = d.velocity_y + DROP_GRAVITY,
              !.lifetime = d.lifetime - 1]

\* WaterDrop.update: the fields after the call
WaterDropStep(d) ==
    [d EXCEPT !.y = d.y + d.velocity_y,
              !.velocity_y = d.velocity_y + DROP_GRAVITY,
              !.lifetime = d.lifetime - 1]

\* faulty variant: alive while either condition holds
WaterDropAlive_Either(d) ==
    d.lifetime > 0 \/ d.y < (WINDOW_HEIGHT - 30) * DropQ

\* WaterDrop.update: the value returned, of the fields after the call
WaterDropAlive(d) ==
    d.lifetime > 0 /\ d.y < (WINDOW_HEIGHT - 30) * DropQ

(* ----------------------------- RainDrop ------------------------------ *)
RainDropStep(r) == [r EXCEPT !.y = r.y + r.speed]

RainDropAlive(r) == r.y < WINDOW_HEIGHT

(* ------------------------------ Ripple ------------------------------- *)
\* faulty variant: the alpha is not clamped at 0
RippleAlpha_NoClamp(radius, max_radius) ==
    IntTrunc(200 * (max_radius - radius), max_radius)

\* max(0, int(200 * (1 - radius / max_radius)))
RippleAlpha(radius, max_radius) ==
    Max(0, IntTrunc(200 * (max_radius - radius), max_radius))

\* faulty variant: alpha is computed from the radius before it grows
RippleStep_AlphaFirst(r) ==
    [r EXCEPT !.radius = r.radius + RIPPLE_EXPAND_SPEED,
              !.alpha = RippleAlpha(r.radius, r.max_radius)]

\* Ripple.update: the fields after the call
RippleStep(r) ==
    LET rad == r.radius + RIPPLE_EXPAND_SPEED
    IN  [r EXCEPT !.radius = rad, !.alpha = RippleAlpha(rad, r.max_radius)]

\* faulty variant: a ripple lives as long as its alpha is not negative
RippleAlive_Visible(r) == r.alpha >= 0

\* Ripple.update: the value returned, of the fields after the call
RippleAlive(r) == r.radius < r.max_radius

\* Ripple(x, y, max_radius = ...) with the dataclass defaults
NewRipple(x, y, max_radius) ==
    [x |-> x, y |-> y, radius |-> RIPPLE_START_RADIUS,
     max_radius |-> max_radius * RippleQ, alpha |-> RIPPLE_START_ALPHA]

(* ------------------------------- Fish -------------------------------- *)
\* Fish(x, y, size, direction) and __post_init__; phase is the value drawn
\* for swim_offset
NewFish(x, y, size, direction, phase) ==
    [x |-> x * FishXQ, y |-> y * FishYQ, size |-> size,
     direction |-> direction, swimming |-> TRUE, jumping |-> FALSE,
     jump_velocity |-> 0, base_y |-> y * FishYQ, swim_offset |-> phase]

\* faulty variant: landing does not put the fish back on base_y
FishJumpStep_NoClamp(f) ==
    LET y1 == f.y + f.jump_velocity
        v1 == f.jump_velocity + FISH_JUMP_GRAVITY
    IN  IF y1 >= f.base_y
        THEN [f EXCEPT !.y = y1, !.jump_velocity = v1,
                       !.jumping = FALSE, !.swimming = TRUE]
        ELSE [f EXCEPT !.y = y1, !.jump_velocity = v1]

\* faulty variant: the fish keeps swimming forward while it is in the air
FishJumpStep_Drifts(f) ==
    LET y1 == f.y + f.jump_velocity
        v1 == f.jump_velocity + FISH_JUMP_GRAVITY
        x1 == f.x + FISH_SWIM_SPEED * f.direction
    IN  IF y1 >= f.base_y
        THEN [f EXCEPT !.x = x1, !.y = f.base_y, !.jump_velocity = v1,
                       !.jumping = FALSE, !.swimming = TRUE]
        ELSE [f EXCEPT !.x = x1, !.y = y1, !.jump_velocity = v1]

\* the jumping branch of Fish.update
FishJumpStep(f) ==
    LET y1 == f.y + f.jump_velocity
        v1 == f.jump_velocity + FISH_JUMP_GRAVITY
    IN  IF y1 >= f.base_y
        THEN [f EXCEPT !.y = f.base_y, !.jump_velocity = v1,
                       !.jumping = FALSE, !.swimming = TRUE]
        ELSE [f EXCEPT !.y = y1, !.jump_velocity = v1]

\* faulty variant: the margin itself counts as outside
FishOutside_Inclusive(x) ==
    x <= FISH_MARGIN * FishXQ \/ x >= (WINDOW_WIDTH - FISH_MARGIN) * FishXQ

\* faulty variant: the fish turns one pixel late
FishOutside_Late(x) ==
    \/ x < (FISH_MARGIN - 1) * FishXQ
    \/ x > (WINDOW_WIDTH - FISH_MARGIN + 1) * FishXQ

\* the boundary test of the swimming branch, of the x after the move
FishOutside(x) ==
    x < FISH_MARGIN * FishXQ \/ x > (WINDOW_WIDTH - FISH_MARGIN) * FishXQ

\* faulty variant: a jump that starts leaves the swimming flag set
FishSwimStep_KeepsSwimming(f, draw) ==
    LET ph == f.swim_offset + FISH_SWIM_PHASE_STEP
        x1 == f.x + FISH_SWIM_SPEED * f.direction
        y1 == f.base_y + (Sin(ph, FISH_SWIM_AMPLITUDE * FishYQ))
        d1 == IF FishOutside(x1) THEN -f.direction ELSE f.direction
        g  == [f EXCEPT !.swim_offset = ph, !.x = x1, !.y = y1,
                        !.direction = d1]
    IN  IF draw = 0
        THEN [g EXCEPT !.jumping = TRUE,
                       !.jump_velocity = FISH_JUMP_VELOCITY]
        ELSE g

\* the swimming branch of Fish.update; draw is the value of
\* random.randint(0, FISH_PROBABILITY)
FishSwimStep(f, draw) ==
    LET ph == f.swim_offset + FISH_SWIM_PHASE_STEP
        x1 == f.x + FISH_SWIM_SPEED * f.direction
        y1 == f.base_y + (Sin(ph, FISH_SWIM_AMPLITUDE * FishYQ))
        d1 == IF FishOutside(x1) THEN -f.direction ELSE f.direction
        g  == [f EXCEPT !.swim_offset = ph, !.x = x1, !.y = y1,
                        !.direction = d1]
    IN  IF draw = 0
        THEN [g EXCEPT !.jumping = TRUE, !.swimming = FALSE,
                       !.jump_velocity = FISH_JUMP_VELOCITY]
        ELSE g

\* Fish.update
FishUpdate(f, draw) ==
    IF f.jumping THEN FishJumpStep(f) ELSE FishSwimStep(f, draw)

(* -------------------------- LotusLeaf, Star -------------------------- *)
LotusLeafUpdate(l) ==
    [l EXCEPT !.wobble_offset = l.wobble_offset + LEAF_WOBBLE_STEP]

\* faulty variant: the phase is kept within one turn
StarUpdate_Wrapped(s) ==
    [s EXCEPT !.twinkle_offset =
        (s.twinkle_offset + STAR_TWINKLE_STEP) % (2 * HalfTurn)]

\* Star.update
StarUpdate(s) ==
    [s EXCEPT !.twinkle_offset = s.twinkle_offset + STAR_TWINKLE_STEP]

(* ----------------------------- GameState ----------------------------- *)
\* an optional argument: {} is None, {v} is the value v
None == {}
Some(v) == {v}
OrElse(arg, default) == IF arg = None THEN default ELSE CHOOSE v \in arg : TRUE

\* the two lotus leaves of _init_objects
InitLeaves ==
    << [x |-> 70, y |-> WINDOW_HEIGHT - 55, size |-> 25, wobble_offset |-> 0],
       [x |-> WINDOW_WIDTH - 90, y |-> WINDOW_HEIGHT - 50, size |-> 20,
        wobble_offset |-> 0] >>

\* the stars of _init_objects, for one outcome of the random draws:
\* x in 10..WINDOW_WIDTH-10, y in 10..WINDOW_HEIGHT/2, size in 1..3,
\* twinkle_offset in [0, 2 pi)
InitStars ==
    [i \in 1 .. STAR_COUNT |->
        [x |-> 10 + 20 * (i - 1), y |-> 10 + 10 * (i - 1),
         size |-> 1 + (i % 3), twinkle_offset |-> (41 * i) % (2 * HalfTurn)]]

\* the display size pygame.display.Info() reports
SCREEN_W == 1920
SCREEN_H == 1080

\* no time of day computed, nothing drawn yet
NoView ==
    [hour |-> -1, time_period |-> "", sun_pos |-> <<0, 0>>,
     sky_arg |-> "", sky_color |-> << >>, sun_drawn |-> << >>]

\* DesktopPet.__init__, the fields besides self.state; hr is the hour of
\* the wall clock
PetInit(hr) ==
    /\ running = TRUE
    /\ show_help = TRUE
    /\ help_timer = HELP_FRAMES
    /\ win_x = (SCREEN_W - WINDOW_WIDTH) \div 2
    /\ win_y = (SCREEN_H - WINDOW_HEIGHT) \div 2
    /\ pc = "handle_events"
    /\ queue = << >>
    /\ clock_hour = hr
    /\ view = NoView
    /\ loop = [calls |-> << >>, applied |-> 0, iterations |-> 0,
               posted |-> 0, hours |-> 0, rain_trials |-> 0,
               ripple_trials |-> 0,
               amb_rain |-> 0, amb_ripple |-> 0,
               trial |-> [rain |-> -1, ripple |-> -1, fish |-> << >>]]

\* DesktopPet.__init__ with GameState.__init__ and _init_objects.  t0 is
\* the reading of time.time(), hr the hour of the wall clock;
\* fd[i] = <<x, size, direction, phase>> are the draws for fish i.  ds is
\* the content of the drops list: empty after construction; the runs that
\* exercise WaterDrop.update on arbitrary WaterDrop objects start with one.
ConstructAt(t0, hr, fd, ds) ==
    /\ PetInit(hr)
    /\ start_time = t0
    /\ run_days = 0
    /\ mountain_show = FALSE
    /\ is_dragging = FALSE
    /\ drag_offset_x = 0
    /\ drag_offset_y = 0
    /\ drops = ds
    /\ rain = << >>
    /\ ripples = << >>
    /\ fish = [i \in 1 .. FISH_COUNT |->
                 NewFish(fd[i][1], WINDOW_HEIGHT - 42, fd[i][2], fd[i][3],
                         fd[i][4])]
    /\ lotus_leaves = InitLeaves
    /\ stars = InitStars
    /\ now = t0
    /\ ticks = 0
    /\ hist = [rain_spawned |-> 0, rain_removed |-> 0, rain_ripples |-> 0,
               jumps |-> 0, drops_gone |-> << >>, ripples_gone |-> << >>]

\* construction at noon
ConstructWith(t0, fd, ds) == ConstructAt(t0, 12, fd, ds)

Construct(t0, fd) == ConstructWith(t0, fd, << >>)

\* int(delta // (24 * 60 * 60)), delta in clock ticks
RunDays(delta) == delta \div (SecondsPerDay * ClockHz)

\* faulty variant: the milestone needs more than EASTER_EGG_DAYS whole days
MilestoneReached_Strict(days) == days > EASTER_EGG_DAYS

\* self.run_days >= CONFIG.EASTER_EGG_DAYS
MilestoneReached(days) == days >= EASTER_EGG_DAYS

\* GameState.update_run_days; t is the reading of time.time()
UpdateRunDays(t) ==
    /\ now' = t
    /\ run_days' = RunDays(t - start_time)
    /\ mountain_show' = MilestoneReached(RunDays(t - start_time))

\* GameState.spawn_drop(x); xdraw, size and jitter are the random draws
\* (jitter = random.uniform(-1, 1) in quarter pixels)
SpawnedDrop(xarg, xdraw, size, jitter) ==
    NewWaterDrop(OrElse(xarg, xdraw), (WINDOW_HEIGHT - 45) * DropQ, size,
                 DROP_INITIAL_VELOCITY + jitter, DROP_LIFETIME, ticks)

SpawnDrop(xarg, xdraw, size, jitter) ==
    /\ drops' = Append(drops, SpawnedDrop(xarg, xdraw, size, jitter))
    /\ UNCHANGED <<start_time, run_days, mountain_show, is_dragging,
                   drag_offset_x, drag_offset_y, rain, ripples, fish,
                   lotus_leaves, stars, now, ticks, hist>>
    /\ UNCHANGED petvars

\* GameState.spawn_rain(); x, length and speed are the random draws
SpawnedRain(x, length, speed) ==
    [x |-> x, y |-> 0, length |-> length, speed |-> speed]

SpawnRain(x, length, speed) ==
    /\ rain' = Append(rain, SpawnedRain(x, length, speed))
    /\ hist' = [hist EXCEPT !.rain_spawned = @ + 1]
    /\ UNCHANGED <<start_time, run_days, mountain_show, is_dragging,
                   drag_offset_x, drag_offset_y, drops, ripples, fish,
                   lotus_leaves, stars, now, ticks>>
    /\ UNCHANGED petvars

\* GameState.spawn_ripple(x, y); xdraw and max_radius are the random draws
SpawnedRipple(xarg, yarg, xdraw, max_radius) ==
    NewRipple(OrElse(xarg, xdraw), OrElse(yarg, WINDOW_HEIGHT - 38),
              max_radius)

SpawnRipple(xarg, yarg, xdraw, max_radius) ==
    /\ ripples' = Append(ripples,
                         SpawnedRipple(xarg, yarg, xdraw, max_radius))
    /\ UNCHANGED <<start_time, run_days, mountain_show, is_dragging,
                   drag_offset_x, drag_offset_y, drops, rain, fish,
                   lotus_leaves, stars, now, ticks, hist>>
    /\ UNCHANGED petvars

\* update_all, the rain loop: of a drop after its update(), whether the
\* loop calls spawn_ripple for it (the elif branch)
RainSplashes(r) == (~RainDropAlive(r)) /\ r.y >= WINDOW_HEIGHT - 45

\* the rain drops, after update(), that the rain loop of update_all turns
\* into ripples, in list order
Splashing(rs) ==
    SelectSeq([i \in 1 .. Len(rs) |-> RainDropStep(rs[i])], RainSplashes)

\* the list self.rain after the rain loop
RainKept(rs) ==
    SelectSeq([i \in 1 .. Len(rs) |-> RainDropStep(rs[i])], RainDropAlive)

\* the list self.ripples after the ripple phase, given the ripples the rain
\* loop appended
RipplesKept(rp) ==
    SelectSeq([i \in 1 .. Len(rp) |-> RippleStep(rp[i])], RippleAlive)

\* the list self.drops after the water-drop phase
DropsKept(ds) ==
    SelectSeq([i \in 1 .. Len(ds) |-> WaterDropStep(ds[i])], WaterDropAlive)

\* of a drop or ripple after its update(), that it did not stay alive
WaterDropDead(d) == ~WaterDropAlive(d)
RippleDead(r) == ~RippleAlive(r)

\* the drops, after update(), that the water-drop phase removes
DropsGone(ds) ==
    SelectSeq([i \in 1 .. Len(ds) |-> WaterDropStep(ds[i])], WaterDropDead)

\* the ripples, after update(), that the ripple phase removes
RipplesGone(rp) ==
    SelectSeq([i \in 1 .. Len(rp) |-> RippleStep(rp[i])], RippleDead)

\* the number of fish that start a jump in this update_all
JumpsStarted(fs, draws) ==
    Cardinality({i \in 1 .. Len(fs) : (~fs[i].jumping) /\ draws[i] = 0})

\* faulty variant: the ripples are stepped and filtered before the rain loop
\* appends its ripples
RipplePhase_BeforeRain(rp, made) == RipplesKept(rp) \o made

\* update_all: the list self.ripples after the rain loop appended the
\* ripples made and the ripple phase stepped and filtered the list
RipplePhase(rp, made) == RipplesKept(rp \o made)

\* GameState.update_all, followed by the appends of the rain drops new_rain
\* and the ripples new_ripples that the caller makes when it returns.
\* t is the reading of time.time(), draws[i] the value of
\* randint(0, FISH_PROBABILITY) for fish i, radii[k] the max_radius drawn
\* for the k-th ripple made by the rain loop
UpdateAllThen(t, draws, radii, new_rain, new_ripples) ==
    LET splash == Splashing(rain)
        made   == [k \in 1 .. Len(splash) |->
                     NewRipple(splash[k].x, WINDOW_HEIGHT - 38, radii[k])]
    IN  /\ UpdateRunDays(t)
        /\ drops' = DropsKept(drops)
        /\ rain' = RainKept(rain) \o new_rain
        /\ ripples' = RipplePhase(ripples, made) \o new_ripples
        /\ fish' = [i \in 1 .. Len(fish) |-> FishUpdate(fish[i], draws[i])]
        /\ lotus_leaves' = [i \in 1 .. Len(lotus_leaves) |->
                               LotusLeafUpdate(lotus_leaves[i])]
        /\ stars' = [i \in 1 .. Len(stars) |-> StarUpdate(stars[i])]
        /\ ticks' = ticks + 1
        /\ hist' = [hist EXCEPT
                      !.rain_spawned = @ + Len(new_rain),
                      !.rain_removed = @ + (Len(rain) - Len(RainKept(rain))),
                      !.rain_ripples = @ + Len(splash),
                      !.jumps = @ + JumpsStarted(fish, draws),
                      !.drops_gone = DropsGone(drops),
                      !.ripples_gone = RipplesGone(ripples \o made)]
        /\ UNCHANGED <<start_time, is_dragging, drag_offset_x, drag_offset_y>>

\* GameState.update_all
UpdateAll(t, draws, radii) ==
    /\ UpdateAllThen(t, draws, radii, << >>, << >>)
    /\ UNCHANGED petvars

(* ----------------------------- Renderer ------------------------------ *)
\* faulty variant: the periods end one hour late (closed upper ends)
TimeOfDay_Closed(hour) ==
    IF 5 <= hour /\ hour <= 7 THEN "dawn"
    ELSE IF 7 <= hour /\ hour <= 11 THEN "morning"
    ELSE IF 11 <= hour /\ hour <= 14 THEN "noon"
    ELSE IF 14 <= hour /\ hour <= 17 THEN "afternoon"
    ELSE IF 17 <= hour /\ hour <= 19 THEN "evening"
    ELSE IF 19 <= hour /\ hour <= 21 THEN "dusk"
    ELSE "night"

\* Renderer.get_time_of_day: the period of the hour read
TimeOfDay(hour) ==
    IF 5 <= hour /\ hour < 7 THEN "dawn"
    ELSE IF 7 <= hour /\ hour < 11 THEN "morning"
    ELSE IF 11 <= hour /\ hour < 14 THEN "noon"
    ELSE IF 14 <= hour /\ hour < 17 THEN "afternoon"
    ELSE IF 17 <= hour /\ hour < 19 THEN "evening"
    ELSE IF 19 <= hour /\ hour < 21 THEN "dusk"
    ELSE "night"

\* ColorTheme, the sky and sun colors
sky_dawn == <<255, 200, 150, 100>>
sky_morning == <<180, 220, 255, 90>>
sky_noon == <<135, 206, 250, 70>>
sky_evening == <<255, 180, 140, 100>>
sky_dusk == <<255, 140, 100, 110>>
sky_night == <<30, 50, 80, 120>>
sun_morning == <<255, 240, 130>>
sun_noon == <<255, 255, 200>>
sun_evening == <<255, 160, 90>>

\* the dictionary sky_colors of get_sky_color
sky_colors ==
    [p \in {"dawn", "morning", "noon", "afternoon", "evening", "dusk",
            "night"} |->
        CASE p = "dawn" -> sky_dawn
          [] p = "morning" -> sky_morning
          [] p = "noon" -> sky_noon
          [] p = "afternoon" -> sky_morning
          [] p = "evening" -> sky_evening
          [] p = "dusk" -> sky_dusk
          [] p = "night" -> sky_night]

\* Renderer.get_sky_color: sky_colors.get(time_period, COLORS.sky_noon)
SkyColor(time_period) ==
    IF time_period \in DOMAIN sky_colors
    THEN sky_colors[time_period]
    ELSE sky_noon

\* sun positions are in hundredths of a pixel, rounded down
SunQ == 100

\* 160 * math.sin(ratio * math.pi) for ratio = elapsed / 12, in hundredths
\* of a pixel rounded up, as IEEE doubles compute it.  math.pi is the double
\* next to pi, so math.sin(1.0 * math.pi) is 1.22e-16 and not 0: the last
\* entry is positive, while math.sin(0.0) is 0.0.
SunSine(elapsed) ==
    <<0, 4142, 8000, 11314, 13857, 15455, 16000, 15455, 13857, 11314, 8000,
      4142, 1>>[elapsed + 1]

\* the value calc_sun_position returns for the hours without sun
OffCanvas == <<-50 * SunQ, -50 * SunQ>>

\* faulty variant: the rise and set hours themselves have no sun
SunIsUp_Strict(hour) == SUN_RISE_HOUR < hour /\ hour < SUN_SET_HOUR

\* calc_sun_position: CONFIG.SUN_RISE_HOUR <= hour <= CONFIG.SUN_SET_HOUR
SunIsUp(hour) == SUN_RISE_HOUR <= hour /\ hour <= SUN_SET_HOUR

\* Renderer.calc_sun_position
CalcSunPosition(hour) ==
    IF SunIsUp(hour)
    THEN <<(WINDOW_WIDTH \div 2) * SunQ,
           220 * SunQ - SunSine(hour - SUN_RISE_HOUR)>>
    ELSE OffCanvas

\* Renderer.draw_sun: what is drawn, << >> for nothing, else the pixel
\* <<int(x), int(y)>> of the centre and the color
DrawSun(sun_pos, time_period) ==
    IF sun_pos[1] < 0 THEN << >>
    ELSE <<IntTrunc(sun_pos[1], SunQ), IntTrunc(sun_pos[2], SunQ),
           IF time_period \in {"dawn", "morning"} THEN sun_morning
           ELSE IF time_period = "noon" THEN sun_noon
           ELSE sun_evening>>

\* the hour, period and sun position DesktopPet.update and render compute
\* first, of the wall clock
TimeView ==
    [view EXCEPT !.hour = clock_hour,
                 !.time_period = TimeOfDay(clock_hour),
                 !.sun_pos = CalcSunPosition(clock_hour)]

\* DesktopPet.render: the sky and the sun it draws (the other draw calls
\* read the state and change nothing)
RenderView ==
    [TimeView EXCEPT
        !.sky_arg = TimeOfDay(clock_hour),
        !.sky_color = SkyColor(TimeOfDay(clock_hour)),
        !.sun_drawn = DrawSun(CalcSunPosition(clock_hour),
                              TimeOfDay(clock_hour))]

(* ---------------------------- DesktopPet ----------------------------- *)
\* a pygame event; key, button and pos are read only for the types that
\* carry them
Event(type, key, button, pos) ==
    [type |-> type, key |-> key, button |-> button, pos |-> pos]

\* the random draws of one handle_events or update call: the k-th value
\* drawn for each purpose, for the outcome numbered by the call's seed
\* random.randint(3, 6), the size of a burst
BurstDraw(k) == 3 + (k % 4)
\* the draws <<x, size, jitter>> of spawn_drop()
DropDraw(k) ==
    <<70 + ((37 * k) % (WINDOW_WIDTH - 139)),
      DROP_MIN_SIZE + (k % (DROP_MAX_SIZE - DROP_MIN_SIZE + 1)),
      ((k % 3) - 1) * DropQ>>
\* the draws <<x, length, speed>> of spawn_rain()
RainDraw(k) ==
    LET speed == RAIN_MIN_SPEED
                   + (k % (RAIN_MAX_SPEED - RAIN_MIN_SPEED + 1))
    IN  <<(speed - RAIN_MIN_SPEED) * (WINDOW_WIDTH \div 4),
          RAIN_MIN_LENGTH + 2 * (speed - RAIN_MIN_SPEED), speed>>
\* the draws <<x, max_radius>> of spawn_ripple()
RippleDraw(k) ==
    <<60 + ((53 * k) % (WINDOW_WIDTH - 119)),
      15 + ((5 * k) % (RIPPLE_MAX_RADIUS - 14))>>

\* n calls of spawn_drop(), the draws numbered from k + 1
BurstOf(n, k) ==
    [j \in 1 .. n |->
        SpawnedDrop(None, DropDraw(k + j)[1], DropDraw(k + j)[2],
                    DropDraw(k + j)[3])]

\* n calls of spawn_rain(), the draws numbered from k + 1
ShowerOf(n, k) ==
    [j \in 1 .. n |->
        SpawnedRain(RainDraw(k + j)[1], RainDraw(k + j)[2],
                    RainDraw(k + j)[3])]

\* the number of spawn_rain() calls the R key makes
SHOWER_SIZE == 20

\* faulty variant: the band includes its two ends
InPondBand_Closed(y) == WINDOW_HEIGHT - 60 <= y /\ y <= WINDOW_HEIGHT - 20

\* handle_events: WINDOW_HEIGHT - 60 < mouse_y < WINDOW_HEIGHT - 20
InPondBand(y) == WINDOW_HEIGHT - 60 < y /\ y < WINDOW_HEIGHT - 20

\* the body of the loop of handle_events for the event e.  st holds the
\* fields the loop changes and the number k of random draws made so far;
\* mouse is the value of pygame.mouse.get_pos()
HandleEvent(st, e, mouse) ==
    LET used == [st EXCEPT !.applied = @ + 1]
    IN
    IF e.type = "QUIT" THEN [used EXCEPT !.running = FALSE]
    ELSE IF e.type = "KEYDOWN" THEN
        IF e.key = "ESCAPE" THEN [used EXCEPT !.running = FALSE]
        ELSE IF e.key = "SPACE" THEN
            [used EXCEPT
                !.drops = @ \o BurstOf(BurstDraw(st.k + 1), st.k + 1),
                !.k = @ + 1 + BurstDraw(st.k + 1)]
        ELSE IF e.key = "r" THEN
            [used EXCEPT !.rain = @ \o ShowerOf(SHOWER_SIZE, st.k),
                         !.k = @ + SHOWER_SIZE]
        ELSE [used EXCEPT !.drops = @ \o BurstOf(1, st.k), !.k = @ + 1]
    ELSE IF e.type = "MOUSEBUTTONDOWN" THEN
        IF e.button = 1 THEN
            [used EXCEPT !.is_dragging = TRUE,
                         !.drag_offset_x = e.pos[1],
                         !.drag_offset_y = e.pos[2]]
        ELSE IF e.button = 3 /\ InPondBand(e.pos[2]) THEN
            [used EXCEPT
                !.ripples = Append(@,
                    SpawnedRipple(Some(e.pos[1]), Some(WINDOW_HEIGHT - 38),
                                  0, RippleDraw(st.k + 1)[2])),
                !.drops = Append(@,
                    SpawnedDrop(Some(e.pos[1]), 0, DropDraw(st.k + 2)[2],
                                DropDraw(st.k + 2)[3])),
                !.k = @ + 2]
        ELSE used
    ELSE IF e.type = "MOUSEBUTTONUP" THEN
        IF e.button = 1 THEN [used EXCEPT !.is_dragging = FALSE] ELSE used
    ELSE IF e.type = "MOUSEMOTION" THEN
        IF st.is_dragging
        THEN [used EXCEPT !.win_x = @ + mouse[1] - st.drag_offset_x,
                          !.win_y = @ + mouse[2] - st.drag_offset_y]
        ELSE used
    ELSE used

\* faulty variant: the release of any button ends the drag
RECURSIVE HandleAll_AnyRelease(_, _, _)
HandleAll_AnyRelease(st, evs, mouse) ==
    IF evs = << >> THEN st
    ELSE LET e  == Head(evs)
             s1 == HandleEvent(st, e, mouse)
             s2 == IF e.type = "MOUSEBUTTONUP"
                   THEN [s1 EXCEPT !.is_dragging = FALSE]
                   ELSE s1
         IN  HandleAll_AnyRelease(s2, Tail(evs), mouse)

\* the loop of handle_events over the events evs
RECURSIVE HandleAll(_, _, _)
HandleAll(st, evs, mouse) ==
    IF evs = << >> THEN st
    ELSE HandleAll(HandleEvent(st, Head(evs), mouse), Tail(evs), mouse)

\* faulty variant: render comes before update
NextPc_RenderFirst(p) ==
    CASE p = "handle_events" -> "render"
      [] p = "render" -> "update"
      [] p = "update" -> "tick"
      [] p = "tick" -> "handle_events"

\* the body of the loop of DesktopPet.run: the call after the call p
NextPc(p) ==
    CASE p = "handle_events" -> "update"
      [] p = "update" -> "render"
      [] p = "render" -> "tick"
      [] p = "tick" -> "handle_events"

\* DesktopPet.handle_events; seed numbers the outcome of the random draws
HandleEvents(seed, mouse) ==
    \E st \in {HandleAll(
                [running |-> running, is_dragging |-> is_dragging,
                 drag_offset_x |-> drag_offset_x,
                 drag_offset_y |-> drag_offset_y, drops |-> drops,
                 rain |-> rain, ripples |-> ripples, win_x |-> win_x,
                 win_y |-> win_y, k |-> seed, applied |-> 0],
                queue, mouse)} :
        /\ pc = "handle_events"
        /\ running' = st.running
        /\ is_dragging' = st.is_dragging
        /\ drag_offset_x' = st.drag_offset_x
        /\ drag_offset_y' = st.drag_offset_y
        /\ drops' = st.drops
        /\ rain' = st.rain
        /\ ripples' = st.ripples
        /\ win_x' = st.win_x
        /\ win_y' = st.win_y
        /\ queue' = << >>
        /\ pc' = NextPc(pc)
        /\ hist' = [hist EXCEPT !.rain_spawned = @ + Len(st.rain) - Len(rain)]
        /\ loop' = [loop EXCEPT !.calls = <<"handle_events">>,
                                !.applied = st.applied,
                                !.iterations = @ + 1]
        /\ UNCHANGED <<start_time, run_days, mountain_show, fish,
                       lotus_leaves, stars, now, ticks, show_help,
                       help_timer, clock_hour, view>>

\* DesktopPet.update.  t is the reading of time.time(), draws and radii the
\* draws of update_all, rain_draw and ripple_draw the values of
\* randint(0, RAIN_PROBABILITY) and randint(0, RIPPLE_PROBABILITY), seed
\* the number of the outcome of the draws of the spawn operations
Update(t, draws, radii, rain_draw, ripple_draw, seed) ==
    LET no_sun  == CalcSunPosition(clock_hour)[1] < 0
        raining == no_sun /\ rain_draw = 0
        rippling == ripple_draw = 0
        new_rain == IF raining THEN ShowerOf(1, seed) ELSE << >>
        new_ripples ==
            IF rippling
            THEN <<SpawnedRipple(None, None, RippleDraw(seed)[1],
                                 RippleDraw(seed)[2])>>
            ELSE << >>
    IN  /\ pc = "update"
        /\ UpdateAllThen(t, draws, radii, new_rain, new_ripples)
        /\ view' = TimeView
        /\ help_timer' = IF help_timer > 0 THEN help_timer - 1 ELSE help_timer
        /\ show_help' = IF help_timer > 0 THEN show_help ELSE FALSE
        /\ pc' = NextPc(pc)
        /\ loop' = [loop EXCEPT
                      !.calls = @ \o <<"update_all", "get_time_of_day">>,
                      !.rain_trials = @ + (IF no_sun THEN 1 ELSE 0),
                      !.ripple_trials = @ + 1,
                      !.amb_rain = @ + Len(new_rain),
                      !.amb_ripple = @ + Len(new_ripples),
                      !.trial = [rain |-> IF no_sun THEN rain_draw ELSE -1,
                                 ripple |-> ripple_draw, fish |-> draws]]
        /\ UNCHANGED <<running, win_x, win_y, queue, clock_hour>>

\* DesktopPet.render
Render ==
    /\ pc = "render"
    /\ view' = RenderView
    /\ pc' = NextPc(pc)
    /\ loop' = [loop EXCEPT !.calls = @ \o <<"get_time_of_day", "draw">>]
    /\ UNCHANGED <<start_time, run_days, mountain_show, is_dragging,
                   drag_offset_x, drag_offset_y, drops, rain, ripples, fish,
                   lotus_leaves, stars, now, ticks, hist, running,
                   show_help, help_timer, win_x, win_y, queue, clock_hour>>

\* DesktopPet.run: clock.tick and the test of the while loop; pygame.quit
\* and sys.exit when running is false
FrameEnd ==
    /\ pc = "tick"
    /\ pc' = IF running THEN NextPc(pc) ELSE "exit"
    /\ UNCHANGED <<start_time, run_days, mountain_show, is_dragging,
                   drag_offset_x, drag_offset_y, drops, rain, ripples, fish,
                   lotus_leaves, stars, now, ticks, hist, running,
                   show_help, help_timer, win_x, win_y, queue, clock_hour,
                   view, loop>>

\* the window system posts the event e
Post(e) ==
    /\ pc # "exit"
    /\ queue' = Append(queue, e)
    /\ loop' = [loop EXCEPT !.posted = @ + 1]
    /\ UNCHANGED <<start_time, run_days, mountain_show, is_dragging,
                   drag_offset_x, drag_offset_y, drops, rain, ripples, fish,
                   lotus_leaves, stars, now, ticks, hist, running,
                   show_help, help_timer, win_x, win_y, pc, clock_hour,
                   view>>

(* ------------------------ the inputs of the runs --------------------- *)
\* one outcome of the fish draws of _init_objects: x in 80..WINDOW_WIDTH-80,
\* size in 10..14, direction in {-1, 1}, swim phase in [0, 2 pi)
CalmFish == << <<80, 10, -1, 0>>, <<WINDOW_WIDTH - 80, 14, 1, HalfTurn>> >>

\* jump draws with which no fish jumps
NoJump == [i \in 1 .. FISH_COUNT |-> 1]

\* the max_radius draws for n new ripples
RadiiFor(n) == [1 .. n -> Draws(15, RIPPLE_MAX_RADIUS)]

\* the events a run posts: the quit intents, the burst key, the rain key,
\* another key, a key release, presses of each button in the pond band,
\* right-button presses on the two ends of the band and next to them,
\* releases, and a pointer motion
PetEvents ==
    {Event("QUIT", "", 0, <<0, 0>>),
     Event("KEYDOWN", "ESCAPE", 0, <<0, 0>>),
     Event("KEYDOWN", "SPACE", 0, <<0, 0>>),
     Event("KEYDOWN", "r", 0, <<0, 0>>),
     Event("KEYDOWN", "a", 0, <<0, 0>>),
     Event("KEYUP", "a", 0, <<0, 0>>),
     Event("MOUSEBUTTONDOWN", "", 1, <<100, 280>>),
     Event("MOUSEBUTTONDOWN", "", 2, <<100, 280>>),
     Event("MOUSEBUTTONDOWN", "", 3, <<100, WINDOW_HEIGHT - 59>>),
     Event("MOUSEBUTTONDOWN", "", 3, <<120, WINDOW_HEIGHT - 60>>),
     Event("MOUSEBUTTONDOWN", "", 3, <<140, WINDOW_HEIGHT - 20>>),
     Event("MOUSEBUTTONUP", "", 1, <<100, 280>>),
     Event("MOUSEBUTTONUP", "", 3, <<100, 280>>),
     Event("MOUSEMOTION", "", 0, <<130, 270>>)}

\* the values of pygame.mouse.get_pos() a run draws
MousePositions == {<<130, 270>>}

\* the numbers of the outcomes of the random draws a run enumerates
PetSeeds == 0 .. 3

\* the hours of the wall clock a run starts at: around the rise and the set
\* of the sun, noon and midnight
PetHours ==
    {0, SUN_RISE_HOUR - 1, SUN_RISE_HOUR, 12, SUN_SET_HOUR, SUN_SET_HOUR + 1}

\* the rain drops whose next update() returns not alive
Landing == {i \in 1 .. Len(rain) : rain[i].y + rain[i].speed >= WINDOW_HEIGHT}

\* the ripples whose next update() returns alive
Lasting ==
    {j \in 1 .. Len(ripples) :
        ripples[j].radius + RIPPLE_EXPAND_SPEED < ripples[j].max_radius}

(* ------------- SpecPet: the frame loop and its input events ---------- *)
InitPet == ConstructAt(0, 12, CalmFish, << >>)

\* an event is posted; the queue is read by handle_events only, so an
\* event that arrives during update or render is posted once they are over
PetPost ==
    /\ loop.posted < MaxEvents
    /\ pc = "handle_events"
    /\ \E e \in PetEvents : Post(e)

PetHandleEvents ==
    \E seed \in PetSeeds, mouse \in MousePositions :
        HandleEvents(seed, mouse)

\* update when both ambient trials miss
PetUpdate ==
    /\ ticks < PetTicks
    /\ \E radii \in RadiiFor(Len(Splashing(rain))) :
          Update(start_time + ticks + 1, NoJump, radii, 1, 1, 0)

NextPet == PetPost \/ PetHandleEvents \/ PetUpdate \/ Render \/ FrameEnd

SpecPet == InitPet /\ [][NextPet]_vars

\* C12: once handle_events has processed a quit intent (a QUIT event or the
\* ESC key, the only things that clear running), update_all is never
\* called again.
C12_NoTickAfterQuit == [][(~running) => ticks' = ticks]_vars

\* the places of the call c in the calls of the current iteration
CallsOf(c) == {i \in 1 .. Len(loop.calls) : loop.calls[i] = c}

\* C13: every iteration of the main loop first applies all pending events
\* (handle_events leaves none and applies as many as were pending), then
\* calls update_all exactly once, then recomputes the time of day, then
\* renders: when the iteration is over its calls hold update_all once,
\* after handle_events, before a get_time_of_day and before every draw;
\* update_all is never called twice or skipped (the number of update_all
\* calls is the number of iterations whose update is over).
C13_FrameOrder ==
    [][/\ (pc = "handle_events" /\ pc' # pc) =>
            /\ queue' = << >>
            /\ loop'.applied = Len(queue)
            /\ loop'.calls = <<"handle_events">>
            /\ ticks' = ticks
       /\ ticks' = loop'.iterations - (IF pc' = "update" THEN 1 ELSE 0)
       /\ ticks' \in {ticks, ticks + 1}
       /\ \A d \in CallsOf("draw")' :
             \E u \in CallsOf("update_all")' :
                \E g \in CallsOf("get_time_of_day")' : u < g /\ g < d
       /\ pc' \in {"tick", "exit"} =>
             /\ Cardinality(CallsOf("update_all")') = 1
             /\ Cardinality(CallsOf("draw")') = 1
             /\ loop'.calls[1] = "handle_events"]_vars

\* C13 witness: the second iteration is over; its handle_events applied two
\* events at once
C13_Witness ==
    /\ pc = "tick"
    /\ ticks = 2
    /\ loop.iterations = 2
    /\ loop.applied = 2
    /\ Len(drops) > 0

\* the sum of a sequence of numbers
RECURSIVE SumSeq(_)
SumSeq(ns) == IF ns = << >> THEN 0 ELSE Head(ns) + SumSeq(Tail(ns))

\* the pond band of pointer y: the pixels strictly between
\* WINDOW_HEIGHT - 60 and WINDOW_HEIGHT - 20
PondBand == (WINDOW_HEIGHT - 59) .. (WINDOW_HEIGHT - 21)

\* the event is a key press of the key named, or of none of the keys named
KeyPress(e, keys) == e.type = "KEYDOWN" /\ e.key \in keys
OtherKeyPress(e) ==
    e.type = "KEYDOWN" /\ e.key \notin {"ESCAPE", "SPACE", "r"}

\* the event is a press of one of the buttons inside the pond band
BandPress(e, buttons) ==
    /\ e.type = "MOUSEBUTTONDOWN"
    /\ e.button \in buttons
    /\ e.pos[2] \in PondBand

\* the input mapping of one handle_events call, a press of one of the
\* buttons inside the pond band being what makes a ripple and a drop:
\* the lists only grow at their ends; the rain key adds 20 rain drops at
\* y = 0, the burst key 3 to 6 water drops, any other non-quit key one
\* water drop at an x of 70..WINDOW_WIDTH-70, a band press one ripple at
\* the pointer x on the surface line and one water drop at the pointer x,
\* and no other event adds anything
InputMapping(buttons) ==
    (pc = "handle_events" /\ pc' # pc) =>
        LET n == Len(queue)
            more_drops == SubSeq(drops', Len(drops) + 1, Len(drops'))
            more_rain == SubSeq(rain', Len(rain) + 1, Len(rain'))
            more_ripples == SubSeq(ripples', Len(ripples) + 1, Len(ripples'))
            presses == {i \in 1 .. n : BandPress(queue[i], buttons)}
        IN  /\ SubSeq(drops', 1, Len(drops)) = drops
            /\ SubSeq(rain', 1, Len(rain)) = rain
            /\ SubSeq(ripples', 1, Len(ripples)) = ripples
            /\ Len(more_rain)
                  = SumSeq([i \in 1 .. n |->
                        IF KeyPress(queue[i], {"r"}) THEN 20 ELSE 0])
            /\ Len(more_ripples) = Cardinality(presses)
            /\ Len(more_drops)
                  >= SumSeq([i \in 1 .. n |->
                        IF KeyPress(queue[i], {"SPACE"}) THEN 3
                        ELSE IF OtherKeyPress(queue[i]) \/ i \in presses
                        THEN 1 ELSE 0])
            /\ Len(more_drops)
                  <= SumSeq([i \in 1 .. n |->
                        IF KeyPress(queue[i], {"SPACE"}) THEN 6
                        ELSE IF OtherKeyPress(queue[i]) \/ i \in presses
                        THEN 1 ELSE 0])
            /\ \A i \in presses :
                  /\ \E k \in 1 .. Len(more_ripples) :
                        /\ more_ripples[k].x = queue[i].pos[1]
                        /\ more_ripples[k].y = WINDOW_HEIGHT - 38
                        /\ more_ripples[k].radius = RIPPLE_START_RADIUS
                  /\ \E k \in 1 .. Len(more_drops) :
                        more_drops[k].x = queue[i].pos[1]
            /\ \A k \in 1 .. Len(more_drops) :
                  /\ more_drops[k].y = (WINDOW_HEIGHT - 45) * DropQ
                  /\ \/ more_drops[k].x \in 70 .. (WINDOW_WIDTH - 70)
                     \/ \E i \in presses : more_drops[k].x = queue[i].pos[1]
            /\ \A k \in 1 .. Len(more_rain) : more_rain[k].y = 0

\* C19 as stated: the input mapping with a press of any pointer button
\* inside the pond band adding one Ripple and one WaterDrop at the pointer x.
C19_AnyButtonPress == [][InputMapping({1, 2, 3})]_vars

\* C19 amended: the input mapping with a press of the right button
\* (button 3) inside the pond band adding one Ripple and one WaterDrop at
\* the pointer x; a press of another button, inside the band or not, adds
\* no entity.
C19_RightButtonPress == [][InputMapping({3})]_vars

\* C19 witness: one handle_events call has applied the rain key and a
\* right-button press at the upper end of the band: 20 rain drops, one
\* ripple and one water drop at the pointer x
C19_Witness ==
    /\ pc = "update"
    /\ loop.applied = 2
    /\ Len(rain) = 20
    /\ Len(ripples) = 1
    /\ ripples[1].x = 100
    /\ Len(drops) = 1
    /\ drops[1].x = 100

\* the fields of a leaf or star that no operation changes
Fixed(o) == <<o.x, o.y, o.size>>

\* C20: in every step of a run of spawns, input events and update_all
\* calls the fish, lotus_leaves and stars collections keep their entities:
\* FISH_COUNT fish with the same size and base_y, 2 leaves and 15 stars at
\* the same x, y and size; each leaf and star phase strictly increases on
\* every update_all and changes in no other step.
C20_FixedCollections ==
    [][/\ Len(fish) = FISH_COUNT /\ Len(fish') = FISH_COUNT
       /\ Len(lotus_leaves) = 2 /\ Len(lotus_leaves') = 2
       /\ Len(stars) = 15 /\ Len(stars') = 15
       /\ \A i \in 1 .. FISH_COUNT :
             /\ fish'[i].size = fish[i].size
             /\ fish'[i].base_y = fish[i].base_y
       /\ \A i \in 1 .. 2 :
             /\ Fixed(lotus_leaves'[i]) = Fixed(lotus_leaves[i])
             /\ IF ticks' = ticks + 1
                THEN lotus_leaves'[i].wobble_offset
                        > lotus_leaves[i].wobble_offset
                ELSE lotus_leaves'[i].wobble_offset
                        = lotus_leaves[i].wobble_offset
       /\ \A i \in 1 .. 15 :
             /\ Fixed(stars'[i]) = Fixed(stars[i])
             /\ IF ticks' = ticks + 1
                THEN stars'[i].twinkle_offset > stars[i].twinkle_offset
                ELSE stars'[i].twinkle_offset = stars[i].twinkle_offset
      ]_vars

\* C20 witness: after key and pointer events spawned drops, rain and a
\* ripple and update_all ran twice, the collections are those of
\* construction with every phase two steps on
C20_Witness ==
    /\ ticks = 2
    /\ Len(rain) > 0
    /\ Len(drops) > 0
    /\ Len(fish) = FISH_COUNT
    /\ Len(lotus_leaves) = 2
    /\ Len(stars) = 15
    /\ \A i \in 1 .. 15 :
          stars[i].twinkle_offset
              = InitStars[i].twinkle_offset + 2 * STAR_TWINKLE_STEP
    /\ \A i \in 1 .. 2 :
          lotus_leaves[i].wobble_offset
              = InitLeaves[i].wobble_offset + 2 * LEAF_WOBBLE_STEP

\* a press of the left button, a press or release of it
LeftPress(e) == e.type = "MOUSEBUTTONDOWN" /\ e.button = 1
LeftButton(e) == e.type \in {"MOUSEBUTTONDOWN", "MOUSEBUTTONUP"} /\ e.button = 1

\* the last element of a sequence that has one
Last(sq) == sq[Len(sq)]

\* C22: no step reassigns start_time.  The drag state (is_dragging,
\* drag_offset_x, drag_offset_y) is left as it was by every step but a
\* handle_events that is given a press or a release of the left button: not
\* by update_all, not by the spawn operations the keys, the right button
\* and update call.  After handle_events, is_dragging tells whether the
\* last left-button event was a press, and the offsets are the position of
\* the last left-button press; is_dragging is false until the first press.
C22_DragFrame ==
    /\ [](loop.iterations = 0 => ~is_dragging)
    /\ [][LET left    == SelectSeq(queue, LeftButton)
              presses == SelectSeq(queue, LeftPress)
              handled == pc = "handle_events" /\ pc' # pc
          IN  /\ start_time' = start_time
              /\ is_dragging' =
                    IF handled /\ left # << >> THEN LeftPress(Last(left))
                    ELSE is_dragging
              /\ <<drag_offset_x', drag_offset_y'>> =
                    IF handled /\ presses # << >> THEN Last(presses).pos
                    ELSE <<drag_offset_x, drag_offset_y>>]_vars

\* C22 witness: a drag is on, begun by a press of the left button at
\* <<100, 280>>, in a run where spawn_drop added a drop and update_all was
\* called
C22_Witness ==
    /\ is_dragging
    /\ <<drag_offset_x, drag_offset_y>> = <<100, 280>>
    /\ Len(drops) > 0
    /\ ticks > 0
    /\ start_time = 0

(* ------------- SpecAmbient: the ambient spawns of update -------------- *)
InitAmbient == \E hr \in PetHours : ConstructAt(0, hr, CalmFish, << >>)

\* handle_events when no event is pending
AmbientHandleEvents == queue = << >> /\ HandleEvents(0, <<0, 0>>)

\* update with each ambient trial hitting (0) or missing (1, or the
\* largest value); the draws of the spawns are numbered by the tick
AmbientUpdate ==
    /\ ticks < AmbientTicks
    /\ \E rain_draw \in Draws(0, RAIN_PROBABILITY),
          ripple_draw \in Draws(0, RIPPLE_PROBABILITY),
          radii \in RadiiFor(Len(Splashing(rain))) :
          Update(start_time + ticks + 1, NoJump, radii, rain_draw,
                 ripple_draw, ticks)

\* the wall clock reaches the next hour
HourPasses ==
    /\ loop.hours < MaxHours
    /\ clock_hour' = (clock_hour + 1) % 24
    /\ loop' = [loop EXCEPT !.hours = @ + 1]
    /\ UNCHANGED <<start_time, run_days, mountain_show, is_dragging,
                   drag_offset_x, drag_offset_y, drops, rain, ripples, fish,
                   lotus_leaves, stars, now, ticks, hist, running,
                   show_help, help_timer, win_x, win_y, pc, queue, view>>

NextAmbient ==
    AmbientHandleEvents \/ AmbientUpdate \/ Render \/ FrameEnd \/ HourPasses

SpecAmbient == InitAmbient /\ [][NextAmbient]_vars

\* the hour is outside [SUN_RISE_HOUR, SUN_SET_HOUR]
NoSunHour(hour) == hour < SUN_RISE_HOUR \/ hour > SUN_SET_HOUR

\* C15: on every update the sun position computed is the off-canvas
\* sentinel exactly when the hour is outside [SUN_RISE_HOUR,
\* SUN_SET_HOUR]; the rain trial is made exactly on those ticks and a rain
\* drop is added only there, only when the trial hits; the ripple trial is
\* made on every tick, whatever the hour, and adds a ripple exactly when it
\* hits; at most one rain drop and one ripple are added per tick.
C15_AmbientPolicy ==
    [][ticks' = ticks + 1 =>
        LET rained  == Len(rain') - Len(rain)
                          + (hist'.rain_removed - hist.rain_removed)
            rippled == Len(ripples') - Cardinality(Lasting)
                          - Cardinality(Landing)
        IN  /\ view'.hour = clock_hour
            /\ (view'.sun_pos[1] < 0) <=> NoSunHour(clock_hour)
            /\ loop'.rain_trials - loop.rain_trials
                  = (IF NoSunHour(clock_hour) THEN 1 ELSE 0)
            /\ loop'.ripple_trials = loop.ripple_trials + 1
            /\ rained \in {0, 1}
            /\ rippled \in {0, 1}
            /\ rained = 1 <=> (NoSunHour(clock_hour) /\ loop'.trial.rain = 0)
            /\ rippled = 1 <=> loop'.trial.ripple = 0
            /\ rained = 1 => rain'[Len(rain')].y = 0
            /\ rippled = 1 =>
                  /\ ripples'[Len(ripples')].radius = RIPPLE_START_RADIUS
                  /\ ripples'[Len(ripples')].y = WINDOW_HEIGHT - 38]_vars

\* C15 witness: in the hour after sunset an update has added a rain drop
\* and a ripple, both unstepped, after an earlier update at the set hour
\* added a ripple and no rain
C15_Witness ==
    /\ view.hour = SUN_SET_HOUR + 1
    /\ loop.hours = 1
    /\ ticks = 2
    /\ Len(rain) = 1
    /\ rain[1].y = 0
    /\ Len(ripples) = 2
    /\ ripples[2].radius = RIPPLE_START_RADIUS
    /\ loop.rain_trials = 1
    /\ loop.ripple_trials = 2

(* ------------- SpecSky: the time of day functions --------------------- *)
\* every hour datetime.now().hour can be
InitSky == \E hr \in 0 .. 23 : ConstructAt(0, hr, CalmFish, << >>)

SkyUpdate ==
    /\ ticks < SkyTicks
    /\ Update(start_time + ticks + 1, NoJump, << >>, 1, 1, 0)

\* the arguments get_sky_color is applied to: the seven periods and two
\* strings that are none of them
SkyProbes ==
    {"dawn", "morning", "noon", "afternoon", "evening", "dusk", "night",
     "midnight", ""}

\* get_sky_color applied to any string
SkyProbe ==
    /\ \E p \in SkyProbes :
          view' = [view EXCEPT !.sky_arg = p, !.sky_color = SkyColor(p)]
    /\ UNCHANGED <<start_time, run_days, mountain_show, is_dragging,
                   drag_offset_x, drag_offset_y, drops, rain, ripples, fish,
                   lotus_leaves, stars, now, ticks, hist, running,
                   show_help, help_timer, win_x, win_y, pc, queue,
                   clock_hour, loop>>

NextSky ==
    AmbientHandleEvents \/ SkyUpdate \/ Render \/ FrameEnd \/ SkyProbe

SpecSky == InitSky /\ [][NextSky]_vars

\* the hours of each period: [5,7), [7,11), [11,14), [14,17), [17,19),
\* [19,21), and [21,24) with [0,5)
PeriodHours ==
    [dawn |-> 5 .. 6, morning |-> 7 .. 10, noon |-> 11 .. 13,
     afternoon |-> 14 .. 16, evening |-> 17 .. 18, dusk |-> 19 .. 20,
     night |-> (21 .. 23) \cup (0 .. 4)]

\* C17: get_time_of_day puts every hour 0..23 into exactly one period, the
\* one whose half-open interval holds it; get_sky_color gives afternoon the
\* color of morning, any string that is no period the color of noon, and
\* each other period its own color.
C17_PeriodsAndSky ==
    /\ view.hour # -1 =>
          /\ view.hour \in 0 .. 23
          /\ view.time_period \in DOMAIN PeriodHours
          /\ \A p \in DOMAIN PeriodHours :
                view.hour \in PeriodHours[p] <=> view.time_period = p
    /\ view.sky_color # << >> =>
          view.sky_color =
              CASE view.sky_arg = "dawn" -> <<255, 200, 150, 100>>
                [] view.sky_arg \in {"morning", "afternoon"}
                      -> <<180, 220, 255, 90>>
                [] view.sky_arg = "evening" -> <<255, 180, 140, 100>>
                [] view.sky_arg = "dusk" -> <<255, 140, 100, 110>>
                [] view.sky_arg = "night" -> <<30, 50, 80, 120>>
                [] OTHER -> <<135, 206, 250, 70>>

\* C17 witness: a frame rendered at 16 h, the last hour of the afternoon,
\* with the sky of the morning
C17_Witness ==
    /\ pc = "tick"
    /\ view.hour = 16
    /\ view.time_period = "afternoon"
    /\ view.sky_arg = "afternoon"
    /\ view.sky_color = sky_morning

\* C18: calc_sun_position returns the off-canvas sentinel exactly for the
\* hours outside [SUN_RISE_HOUR, SUN_SET_HOUR], and draw_sun draws nothing
\* for it; at the rise hour and at the set hour it returns the same low
\* y = 220 at the horizontal center; at the midpoint hour it returns
\* y = 60, and no hour of the window is higher on screen.
C18_SunArc ==
    view.hour # -1 =>
        /\ view.sun_pos = <<-50 * SunQ, -50 * SunQ>>
              <=> (view.hour < SUN_RISE_HOUR \/ view.hour > SUN_SET_HOUR)
        /\ (pc = "tick" /\ view.sun_pos = <<-50 * SunQ, -50 * SunQ>>)
              => view.sun_drawn = << >>
        /\ view.hour \in {SUN_RISE_HOUR, SUN_SET_HOUR} =>
              view.sun_pos = <<(WINDOW_WIDTH \div 2) * SunQ, 220 * SunQ>>
        /\ view.hour = (SUN_RISE_HOUR + SUN_SET_HOUR) \div 2 =>
              view.sun_pos[2] = 60 * SunQ
        /\ view.hour \in SUN_RISE_HOUR .. SUN_SET_HOUR =>
              /\ view.sun_pos[2] >= 60 * SunQ
              /\ view.sun_pos[1] = (WINDOW_WIDTH \div 2) * SunQ

(* ------------- SpecTrial: the random trials of a tick ------------------ *)
\* the values the three trials can draw
RainTrial == RandInt(0, RAIN_PROBABILITY)
RippleTrial == RandInt(0, RIPPLE_PROBABILITY)
FishTrial == RandInt(0, FISH_PROBABILITY)

\* the draws <<rain, ripple, fish>> of one update a run enumerates: every
\* value of one trial, the others missing
TrialDraws ==
    {<<d, 1, NoJump>> : d \in RainTrial}
        \cup {<<1, d, NoJump>> : d \in RippleTrial}
        \cup {<<1, 1, <<d, 1>> >> : d \in FishTrial}
        \cup {<<1, 1, <<1, d>> >> : d \in FishTrial}

\* at night, when the rain trial is made
InitTrial == ConstructAt(0, 0, CalmFish, << >>)

TrialUpdate ==
    /\ ticks < TrialTicks
    /\ \E d \in TrialDraws :
          Update(start_time + ticks + 1, d[3], << >>, d[1], d[2], 0)

NextTrial == AmbientHandleEvents \/ TrialUpdate \/ Render \/ FrameEnd

SpecTrial == InitTrial /\ [][NextTrial]_vars

\* the draw v is one of n outcomes numbered from 0, and the set drawn from
\* has n members of which one, 0, triggers
OneInN(v, outcomes, n) ==
    /\ v \in 0 .. (n - 1)
    /\ Cardinality(outcomes) = n
    /\ Cardinality({d \in outcomes : d = 0}) = 1

\* C16: each trial of a tick draws from exactly N equally likely outcomes,
\* N the configured denominator, of which exactly one triggers: the rain
\* drop is spawned, the ripple is spawned and the fish jumps exactly on the
\* outcome 0, and every value drawn is one of N outcomes.
C16_OneInN ==
    ticks > 0 =>
        /\ loop.trial.rain # -1 =>
              /\ OneInN(loop.trial.rain, RainTrial, RAIN_PROBABILITY)
              /\ loop.amb_rain = 1 <=> loop.trial.rain = 0
        /\ OneInN(loop.trial.ripple, RippleTrial, RIPPLE_PROBABILITY)
        /\ loop.amb_ripple = 1 <=> loop.trial.ripple = 0
        /\ \A i \in 1 .. FISH_COUNT :
              /\ OneInN(loop.trial.fish[i], FishTrial, FISH_PROBABILITY)
              /\ (ticks = 1 /\ pc = "render") =>
                    (fish[i].jumping <=> loop.trial.fish[i] = 0)

(* --------------------- SpecRain: rain and its ripples ---------------- *)
InitRain == Construct(0, CalmFish)

\* the draws <<x, length, speed>> of spawn_rain a run enumerates: every
\* speed, each with one x of 0..WINDOW_WIDTH (both ends among them) and one
\* length of RAIN_MIN_LENGTH..RAIN_MAX_LENGTH
RainDraws ==
    {<<(speed - RAIN_MIN_SPEED) * (WINDOW_WIDTH \div 4),
       RAIN_MIN_LENGTH + 2 * (speed - RAIN_MIN_SPEED), speed>> :
        speed \in RandInt(RAIN_MIN_SPEED, RAIN_MAX_SPEED)}

RainSpawn ==
    /\ hist.rain_spawned < MaxRain
    /\ ticks < RainSpawnWindow
    /\ \E d \in RainDraws : SpawnRain(d[1], d[2], d[3])

RainTick ==
    /\ ticks < RainTicks
    /\ \E radii \in RadiiFor(Len(Splashing(rain))) :
          UpdateAll(start_time + ticks + 1, NoJump, radii)

NextRain == RainSpawn \/ RainTick

SpecRain == InitRain /\ [][NextRain]_vars

(* the pond-surface band: y >= WINDOW_HEIGHT - 45 *)
InBand(y) == y >= WINDOW_HEIGHT - 45

\* the drop's y first reaches the band on its next update()
Crossing(r) == (~InBand(r.y)) /\ InBand(r.y + r.speed)

\* C1: for a RainDrop spawned at y = 0, update_all creates its one Ripple on
\* the tick where the drop's y first reaches the pond-surface band
\* (the number of ripples made from rain on a tick is the number of drops
\* whose y first reaches the band on that tick), and the drop is removed on
\* that tick or the next (a drop that is kept was not in the band before
\* the tick).
C1_RippleAtBandCrossing ==
    [][ticks' = ticks + 1 =>
        /\ hist'.rain_ripples - hist.rain_ripples
              = Cardinality({i \in 1 .. Len(rain) : Crossing(rain[i])})
        /\ \A k \in 1 .. Len(rain') :
              ~InBand(rain'[k].y - rain'[k].speed)]_vars

\* C2: a drop whose y crosses the band on this tick while update() still
\* returns alive triggers a Ripple at its x on that tick (the ripple has
\* been stepped once when update_all returns).
C2_RippleIndependentOfAlive ==
    [][ticks' = ticks + 1 =>
        \A i \in 1 .. Len(rain) :
            (Crossing(rain[i]) /\ rain[i].y + rain[i].speed < WINDOW_HEIGHT)
            => \E k \in 1 .. Len(ripples') :
                  /\ ripples'[k].x = rain[i].x
                  /\ ripples'[k].radius
                        = RIPPLE_START_RADIUS + RIPPLE_EXPAND_SPEED]_vars

\* C14: update_all steps the rain (making ripples) before it steps and
\* filters the ripples: when it returns, the list holds the old ripples
\* that stay alive and, after them, one ripple for each rain drop that
\* ended on this tick, at the drop's x and y = WINDOW_HEIGHT - 38, already
\* stepped once (radius 2.0 + RIPPLE_EXPAND_SPEED, alpha below 200) and
\* not pruned; the milestone was recomputed from the clock reading of this
\* tick and the rain that stays was stepped once.
C14_RainRippleStepped ==
    [][ticks' = ticks + 1 =>
        /\ Len(ripples') = Cardinality(Lasting) + Cardinality(Landing)
        /\ \A m \in 1 .. Cardinality(Landing) :
              LET r == ripples'[Cardinality(Lasting) + m]
              IN  /\ r.radius = RIPPLE_START_RADIUS + RIPPLE_EXPAND_SPEED
                  /\ r.alpha < RIPPLE_START_ALPHA
                  /\ r.y = WINDOW_HEIGHT - 38
                  /\ \E i \in Landing : r.x = rain[i].x
        /\ \A m \in 1 .. Cardinality(Lasting) :
              ripples'[m].radius > RIPPLE_START_RADIUS + RIPPLE_EXPAND_SPEED
        /\ Len(rain') = Len(rain) - Cardinality(Landing)
        /\ run_days' = RunDays(now' - start_time)]_vars

\* C14 witness: update_all has just turned a rain drop into a ripple, which
\* is in the list at radius 2.8 behind an older ripple
C14_Witness ==
    /\ hist.rain_ripples = 2
    /\ Len(ripples) = 2
    /\ ripples[2].radius = RIPPLE_START_RADIUS + RIPPLE_EXPAND_SPEED
    /\ ripples[1].radius > ripples[2].radius
    /\ rain = << >>

(* ------------- SpecDecay: the end of drops, rain and ripples ---------- *)
InitDecay == Construct(0, CalmFish)

\* coordinates far off the window on either side
FarOff == {-1000, WINDOW_WIDTH + 1000}

\* spawn_drop(x) with x off the window
DecaySpawnDrop ==
    /\ ticks < DecaySpawnWindow
    /\ Len(drops) + Len(ripples) + hist.rain_spawned < MaxTransient
    /\ \E x \in FarOff : SpawnDrop(Some(x), 0, DROP_MAX_SIZE, 0)

\* spawn_rain() with the slowest and the fastest speed
DecaySpawnRain ==
    /\ ticks < DecaySpawnWindow
    /\ Len(drops) + Len(ripples) + hist.rain_spawned < MaxTransient
    /\ \E speed \in {RAIN_MIN_SPEED, RAIN_MAX_SPEED} :
          SpawnRain(WINDOW_WIDTH, RAIN_MAX_LENGTH, speed)

\* spawn_ripple(x, y) at a point off the window, with the smallest and the
\* largest max_radius
DecaySpawnRipple ==
    /\ ticks < DecaySpawnWindow
    /\ Len(drops) + Len(ripples) + hist.rain_spawned < MaxTransient
    /\ \E x \in FarOff, max_radius \in {15, RIPPLE_MAX_RADIUS} :
          SpawnRipple(Some(x), Some(-x), 0, max_radius)

DecayTick ==
    /\ ticks < DecayTicks
    /\ \E radii \in RadiiFor(Len(Splashing(rain))) :
          UpdateAll(start_time + ticks + 1, NoJump, radii)

NextDecay ==
    DecaySpawnDrop \/ DecaySpawnRain \/ DecaySpawnRipple \/ DecayTick

SpecDecay == InitDecay /\ [][NextDecay]_vars

\* a divided by b, rounded up
CeilDiv(a, b) == (a + b - 1) \div b

\* the update() calls after which a ripple of the largest max_radius, and a
\* rain drop of the lowest speed, are removed
RippleLife ==
    CeilDiv(RIPPLE_MAX_RADIUS * RippleQ - RIPPLE_START_RADIUS,
            RIPPLE_EXPAND_SPEED)
RainLife == CeilDiv(WINDOW_HEIGHT, RAIN_MIN_SPEED)

\* the update_all calls after which an entity and what it leaves behind
\* are gone at the latest: a water drop by its lifetime, a ripple by its
\* radius, a rain drop by its fall and the ripple it makes on the call
\* that removes it
DropLeft(d) == d.lifetime
RippleLeft(r) == CeilDiv(r.max_radius - r.radius, RIPPLE_EXPAND_SPEED)
RainLeft(r) == CeilDiv(WINDOW_HEIGHT - r.y, r.speed) + RippleLife - 1

\* the largest of them over the three lists, 0 when they are empty
TicksLeft ==
    LET all == {DropLeft(drops[i]) : i \in 1 .. Len(drops)}
                 \cup {RainLeft(rain[i]) : i \in 1 .. Len(rain)}
                 \cup {RippleLeft(ripples[i]) : i \in 1 .. Len(ripples)}
    IN  IF all = {} THEN 0
        ELSE CHOOSE n \in all : \A m \in all : m <= n

\* the update_all calls after the last spawn that empty the lists
DecayBound == Max(DROP_LIFETIME, RainLife + RippleLife - 1)

Emptied == drops = << >> /\ rain = << >> /\ ripples = << >>

\* C21: whatever the coordinates of the spawns, the drops, rain and
\* ripples lists are empty once DecayBound update_all calls were made
\* after the last spawn operation, the ripples made by the last rain drops
\* included: the number of calls an entity still needs is positive while
\* it is listed, at most DecayBound, and every update_all lowers the
\* largest one by one at least.
C21_SelfDestruct ==
    /\ [](/\ TicksLeft <= DecayBound
          /\ TicksLeft = 0 <=> Emptied
          /\ ticks >= DecaySpawnWindow + DecayBound => Emptied)
    /\ [][ticks' = ticks + 1 => TicksLeft' <= Max(TicksLeft - 1, 0)]_vars

\* C21 witness: the lists are empty, and the last update_all, DecayBound
\* calls after the last spawn, removed the ripple made by a rain drop
C21_Witness ==
    /\ Emptied
    /\ hist.rain_ripples > 0
    /\ hist.ripples_gone # << >>
    /\ ticks = DecaySpawnWindow - 1 + DecayBound

(* --------------------- SpecClock: the milestone flag ----------------- *)
\* one day, in clock ticks
Day == SecondsPerDay * ClockHz

\* the readings of time.time() a run draws, as offsets from start_time:
\* before the start, around one day, around the milestone, and after it
ClockOffsets ==
    {-Day, -1, 0, 1, Day - 1, Day, EASTER_EGG_DAYS * Day - 1,
     EASTER_EGG_DAYS * Day, EASTER_EGG_DAYS * Day + 1,
     (EASTER_EGG_DAYS + 1) * Day}

InitClock == Construct(2 * Day, CalmFish)

\* update_all at any clock reading
ClockTick ==
    /\ ticks < ClockTicks
    /\ \E d \in ClockOffsets : UpdateAll(start_time + d, NoJump, << >>)

\* update_run_days alone at any clock reading
ClockPoll ==
    /\ \E d \in ClockOffsets : UpdateRunDays(start_time + d)
    /\ UNCHANGED <<start_time, is_dragging, drag_offset_x, drag_offset_y,
                   drops, rain, ripples, fish, lotus_leaves, stars, ticks,
                   hist>>
    /\ UNCHANGED petvars

NextClock == ClockTick \/ ClockPoll

SpecClock == InitClock /\ [][NextClock]_vars

\* C3: once mountain_show is true it stays true after every later
\* update_all / update_run_days call, whatever the clock reads.
C3_MilestoneLatch == [][mountain_show => mountain_show']_vars

\* C4: after update_run_days at start_time + d with d >= 0, mountain_show
\* is true exactly when d >= EASTER_EGG_DAYS * 86400 seconds.
C4_MilestoneThreshold ==
    now >= start_time =>
        (mountain_show <=> now - start_time >= EASTER_EGG_DAYS * Day)

\* C4 witness: the flag is set by a reading taken exactly at the threshold
C4_Witness ==
    /\ now - start_time = EASTER_EGG_DAYS * Day
    /\ mountain_show
    /\ run_days = EASTER_EGG_DAYS

(* ------------------- SpecDrop: WaterDrop.update ----------------------- *)
\* the floor bound of WaterDrop.update and the pond surface of spawn_drop,
\* in quarter pixels
DropFloor == (WINDOW_HEIGHT - 30) * DropQ
DropSurface == (WINDOW_HEIGHT - 45) * DropQ

\* the WaterDrop objects a run may start with: y far above the pond, at
\* the surface, one step above the floor bound, on it and below it;
\* velocity upward, zero and downward; lifetime 1..MaxLife or DROP_LIFETIME
DrawnDrops ==
    {NewWaterDrop(160, y, DROP_MIN_SIZE, v, life, 0) :
        y \in {0, DropSurface, DropFloor - 1, DropFloor, DropFloor + DropQ},
        v \in {DROP_INITIAL_VELOCITY, 0, DROP_GRAVITY, 2 * DropQ},
        life \in (1 .. MaxLife) \cup {DROP_LIFETIME}}

InitDrop ==
    \E ds \in {<< >>} \cup {<<d>> : d \in DrawnDrops} :
        ConstructWith(0, CalmFish, ds)

\* spawn_drop() with the jitter random.uniform(-1, 1) drawn as -1, 0 or 1
DropSpawn ==
    /\ ticks < DropSpawnWindow
    /\ Len(drops) < MaxDrops
    /\ \E jitter \in {-DropQ, 0, DropQ} :
          SpawnDrop(None, 70, DROP_MIN_SIZE, jitter)

DropTick ==
    /\ ticks < DropTicks
    /\ UpdateAll(start_time + ticks + 1, NoJump, << >>)

NextDrop == DropSpawn \/ DropTick

SpecDrop == InitDrop /\ [][NextDrop]_vars

\* the number of update() calls a drop has had
DropAge(d) == ticks - d.made.tick

\* C5: a WaterDrop with initial lifetime L >= 1 that is still in the list
\* after n >= 1 update() calls has n < L, lifetime > 0 and y below the floor
\* bound; a drop removed by a call had lifetime <= 0 or y on or past the
\* floor bound (either alone), after at most L calls.
C5_DropDiesInTime ==
    /\ \A i \in 1 .. Len(drops) :
          DropAge(drops[i]) >= 1 =>
              /\ DropAge(drops[i]) < drops[i].made.lifetime
              /\ drops[i].lifetime > 0
              /\ drops[i].y < DropFloor
    /\ \A k \in 1 .. Len(hist.drops_gone) :
          /\ hist.drops_gone[k].lifetime <= 0
                \/ hist.drops_gone[k].y >= DropFloor
          /\ DropAge(hist.drops_gone[k]) <= hist.drops_gone[k].made.lifetime

\* C5 witness: a drop removed by the floor bound alone, with lifetime left,
\* and (in another run) one removed by its lifetime alone
C5_Witness ==
    \E k \in 1 .. Len(hist.drops_gone) :
        /\ hist.drops_gone[k].lifetime > 0
        /\ hist.drops_gone[k].y >= DropFloor
        /\ DropAge(hist.drops_gone[k]) < hist.drops_gone[k].made.lifetime

\* a drop as spawn_drop makes it when the jitter is 0: at the pond surface,
\* velocity -7.0, lifetime 40
PlainDrop(d) ==
    /\ d.made.y = DropSurface
    /\ d.made.velocity_y = DROP_INITIAL_VELOCITY
    /\ d.made.lifetime = DROP_LIFETIME

\* y_n = y_0 - 7 n + 0.125 n (n - 1), in quarter pixels
ClosedFormY(n) == DropSurface + DROP_INITIAL_VELOCITY * n + (n * (n - 1)) \div 2

\* the first tick at which the closed form is on or past the floor bound or
\* the lifetime is used up
ClosedFormRemoval ==
    CHOOSE n \in 1 .. DROP_LIFETIME :
        /\ ClosedFormY(n) >= DropFloor \/ n = DROP_LIFETIME
        /\ \A m \in 1 .. (n - 1) : ClosedFormY(m) < DropFloor

\* C6 as stated: the velocity of such a drop is positive after exactly 28
\* update() calls.
C6_PositiveAfter28 ==
    \A i \in 1 .. Len(drops) :
        (PlainDrop(drops[i]) /\ DropAge(drops[i]) = 28)
            => drops[i].velocity_y > 0

\* C6 amended: after n calls the drop is at the closed-form y with velocity
\* -7 + 0.25 n, which is 0 after exactly 28 calls and positive from the
\* 29th on; it is in the list before the closed-form removal tick and
\* removed on it.
C6_ZeroAfter28 ==
    /\ \A i \in 1 .. Len(drops) :
          PlainDrop(drops[i]) =>
              /\ drops[i].y = ClosedFormY(DropAge(drops[i]))
              /\ drops[i].velocity_y
                    = DROP_INITIAL_VELOCITY + DROP_GRAVITY * DropAge(drops[i])
              /\ DropAge(drops[i]) = 28 => drops[i].velocity_y = 0
              /\ DropAge(drops[i]) >= 29 => drops[i].velocity_y > 0
              /\ DropAge(drops[i]) < ClosedFormRemoval
    /\ \A k \in 1 .. Len(hist.drops_gone) :
          PlainDrop(hist.drops_gone[k]) =>
              /\ DropAge(hist.drops_gone[k]) = ClosedFormRemoval
              /\ hist.drops_gone[k].y = ClosedFormY(ClosedFormRemoval)

\* C6 witness: the drop spawn_drop made with jitter 0 has been removed by
\* update_all, on its 40th call
C6_Witness ==
    \E k \in 1 .. Len(hist.drops_gone) :
        /\ PlainDrop(hist.drops_gone[k])
        /\ hist.drops_gone[k].made.tick > 0
        /\ hist.drops_gone[k].lifetime = 0
        /\ DropAge(hist.drops_gone[k]) = DROP_LIFETIME

(* -------------------- SpecRipple: Ripple.update ----------------------- *)
InitRipple == Construct(0, CalmFish)

\* spawn_ripple() with every max_radius it can draw
RippleSpawn ==
    /\ ticks < RippleSpawnWindow
    /\ Len(ripples) < MaxRipples
    /\ \E max_radius \in RandInt(15, RIPPLE_MAX_RADIUS) :
          SpawnRipple(None, None, FISH_MARGIN, max_radius)

RippleTick ==
    /\ ticks < RippleTicks
    /\ UpdateAll(start_time + ticks + 1, NoJump, << >>)

NextRipple == RippleSpawn \/ RippleTick

SpecRipple == InitRipple /\ [][NextRipple]_vars

\* C10: for every ripple spawn_ripple made, the next update() call does not
\* increase alpha; a ripple in the list has radius < max_radius, and a
\* ripple whose radius reached or passed max_radius on its last call has
\* alpha exactly 0.
C10_AlphaFades ==
    /\ \A i \in 1 .. Len(ripples) :
          /\ RippleStep(ripples[i]).alpha <= ripples[i].alpha
          /\ ripples[i].radius < ripples[i].max_radius
          /\ ripples[i].alpha >= 0
    /\ \A k \in 1 .. Len(hist.ripples_gone) :
          /\ hist.ripples_gone[k].radius >= hist.ripples_gone[k].max_radius
          /\ hist.ripples_gone[k].alpha = 0

\* C10 witness: a ripple removed with its radius past max_radius, alpha 0
C10_Witness ==
    \E k \in 1 .. Len(hist.ripples_gone) :
        /\ hist.ripples_gone[k].radius > hist.ripples_gone[k].max_radius
        /\ hist.ripples_gone[k].alpha = 0
        /\ hist.ripples_gone[k].max_radius = 15 * RippleQ

\* 200 * (1 - radius / max_radius) as the fraction AlphaNum / max_radius
AlphaNum(radius, max_radius) == 200 * (max_radius - radius)

\* the integer nearest to n / d (ties to the even one, as Python's round),
\* clamped at 0; d > 0
RoundedAlpha(n, d) ==
    IF n <= 0 THEN 0
    ELSE LET q == n \div d
             r == n % d
         IN  IF 2 * r < d THEN q
             ELSE IF 2 * r > d THEN q + 1
             ELSE IF q % 2 = 0 THEN q ELSE q + 1

\* a is the integer part of n / d (toward zero), clamped at 0; d > 0
IsTruncatedAlpha(a, n, d) ==
    IF n <= 0 THEN a = 0
    ELSE a * d <= n /\ n < (a + 1) * d

\* the ripples before ripples[i] in the list that their next update() ends
EndingBefore(i) ==
    Cardinality({j \in 1 .. (i - 1) :
        ripples[j].radius + RIPPLE_EXPAND_SPEED >= ripples[j].max_radius})

\* C11 as stated: an update() call grows radius by the expansion rate, sets
\* alpha to max(0, round(200 * (1 - radius / max_radius))), rounding to the
\* nearest integer, and the ripple stays in the list exactly when
\* radius < max_radius.
C11_AlphaRounded ==
    [][ticks' = ticks + 1 =>
        \A i \in 1 .. Len(ripples) :
            LET rad == ripples[i].radius + RIPPLE_EXPAND_SPEED
                mx  == ripples[i].max_radius
                out == IF rad < mx
                       THEN ripples'[i - EndingBefore(i)]
                       ELSE hist'.ripples_gone[EndingBefore(i) + 1]
            IN  /\ out.radius = rad
                /\ out.alpha = RoundedAlpha(AlphaNum(rad, mx), mx)]_vars

\* C11 amended: an update() call grows radius by the expansion rate, sets
\* alpha to max(0, int(200 * (1 - radius / max_radius))), the integer part
\* (truncation toward zero, never rounding up), and the ripple stays in the
\* list exactly when radius < max_radius.
C11_AlphaTruncated ==
    [][ticks' = ticks + 1 =>
        /\ Len(ripples') + Len(hist'.ripples_gone) = Len(ripples)
        /\ \A i \in 1 .. Len(ripples) :
            LET rad == ripples[i].radius + RIPPLE_EXPAND_SPEED
                mx  == ripples[i].max_radius
                out == IF rad < mx
                       THEN ripples'[i - EndingBefore(i)]
                       ELSE hist'.ripples_gone[EndingBefore(i) + 1]
            IN  /\ out.radius = rad
                /\ out.max_radius = mx
                /\ IsTruncatedAlpha(out.alpha, AlphaNum(rad, mx), mx)]_vars

\* C11 witness: a ripple of max_radius 15 after its first update(): radius
\* 2.8, alpha 162 where 200 * (1 - 2.8 / 15) = 162.67
C11_Witness ==
    \E i \in 1 .. Len(ripples) :
        /\ ripples[i].max_radius = 15 * RippleQ
        /\ ripples[i].radius = RIPPLE_START_RADIUS + RIPPLE_EXPAND_SPEED
        /\ ripples[i].alpha = 162
        /\ RoundedAlpha(AlphaNum(ripples[i].radius, 15 * RippleQ),
                        15 * RippleQ) = 163

(* ---------------------- SpecFish: Fish.update ------------------------- *)
\* the fish draws of _init_objects a run starts from: the first fish at the
\* left end of the range of x, heading left, the second at the right end,
\* heading right; swim phases a half turn apart
FishStarts ==
    {<< <<x, 10, -1, ph>>,
        <<WINDOW_WIDTH - x, 14, 1, ph + HalfTurn \div 2>> >> :
        x \in {80, 81, 82}, ph \in {0, HalfTurn}}

InitFish == \E fd \in FishStarts : Construct(0, fd)

\* the jump draws of one update_all: one fish may draw 0 while the run has
\* jumps left and no fish is in the air
JumpDraws ==
    IF /\ hist.jumps < MaxJumps
       /\ ticks < FishTicks
       /\ \A i \in 1 .. FISH_COUNT : ~fish[i].jumping
    THEN {<<0, 1>>, <<1, 0>>, <<1, 1>>}
    ELSE {<<1, 1>>}

\* update_all; a run ends after FishTicks calls, once no fish is in the air
FishTick ==
    /\ ticks < FishTicks \/ \E i \in 1 .. FISH_COUNT : fish[i].jumping
    /\ \E draws \in JumpDraws :
          UpdateAll(start_time + ticks + 1, draws, << >>)

NextFish == FishTick

SpecFish == InitFish /\ [][NextFish]_vars

\* the frame loop calls update_all again and again
SpecFairFish == SpecFish /\ WF_vars(FishTick)

\* back on base_y and swimming
Landed(i) ==
    (~fish[i].jumping) /\ fish[i].swimming /\ fish[i].y = fish[i].base_y

\* the update() calls a jump takes at most: the jump velocity is back at
\* its start value, sign changed, after 2 * 6.0 / 0.3 calls
JumpCallsBound == 2 * ((-FISH_JUMP_VELOCITY) \div FISH_JUMP_GRAVITY) + 2

\* the update() calls made in the jumping state since the jump started
JumpCalls(f) == (f.jump_velocity - FISH_JUMP_VELOCITY) \div FISH_JUMP_GRAVITY

\* C7: a fish that is jumping is, after finitely many update() calls (at
\* most JumpCallsBound), not jumping, swimming and with y exactly base_y;
\* that is the state every jump ends in.
C7_JumpReturns ==
    /\ \A i \in 1 .. FISH_COUNT : fish[i].jumping ~> Landed(i)
    /\ [][\A i \in 1 .. FISH_COUNT :
            /\ fish[i].jumping => JumpCalls(fish[i]) < JumpCallsBound
            /\ (fish[i].jumping /\ ~fish'[i].jumping) =>
                  /\ fish'[i].y = fish'[i].base_y
                  /\ fish'[i].swimming
                  /\ JumpCalls(fish'[i]) <= JumpCallsBound]_vars

\* C7 witness: a fish that jumped has landed: it is on base_y, swimming,
\* with the velocity JumpCallsBound calls in the air leave
C7_Witness ==
    \E i \in 1 .. FISH_COUNT :
        /\ hist.jumps > 0
        /\ Landed(i)
        /\ JumpCalls(fish[i]) = JumpCallsBound

\* x is inside the margin, 60 <= x <= WINDOW_WIDTH - 60
InsideMargin(x) ==
    FISH_MARGIN * FishXQ <= x /\ x <= (WINDOW_WIDTH - FISH_MARGIN) * FishXQ

\* C8: on an update() call the direction of a fish changes if and only if
\* its x moved from inside [60, WINDOW_WIDTH - 60] to outside it on that
\* call, and then it changes once.
C8_FlipIffCrossing ==
    [][ticks' = ticks + 1 =>
        \A i \in 1 .. FISH_COUNT :
            /\ (fish'[i].direction # fish[i].direction)
                  <=> (InsideMargin(fish[i].x) /\ ~InsideMargin(fish'[i].x))
            /\ fish'[i].direction \in {fish[i].direction, -fish[i].direction}
       ]_vars

\* C8 witness: a fish has crossed the left margin on the last call and
\* turned round: it is outside, heading right
C8_Witness ==
    \E i \in 1 .. FISH_COUNT :
        /\ fish[i].x < FISH_MARGIN * FishXQ
        /\ fish[i].direction = 1
        /\ ticks > 0

\* C9 as stated: base_y is the y of creation and 60 <= x <= WINDOW_WIDTH-60.
C9_InsideMargin ==
    \A i \in 1 .. FISH_COUNT :
        /\ fish[i].base_y = (WINDOW_HEIGHT - 42) * FishYQ
        /\ InsideMargin(fish[i].x)

\* C9 amended: base_y is the y of creation, and x leaves the margin by at
\* most one swim step: 60 - 0.3 <= x <= WINDOW_WIDTH - 60 + 0.3.
C9_WithinOneStep ==
    \A i \in 1 .. FISH_COUNT :
        /\ fish[i].base_y = (WINDOW_HEIGHT - 42) * FishYQ
        /\ FISH_MARGIN * FishXQ - FISH_SWIM_SPEED <= fish[i].x
        /\ fish[i].x <= (WINDOW_WIDTH - FISH_MARGIN) * FishXQ + FISH_SWIM_SPEED

\* C9 witness: a fish a full swim step outside the margin, in the jumping
\* state or not, its y away from base_y
C9_Witness ==
    \E i \in 1 .. FISH_COUNT :
        /\ fish[i].x = FISH_MARGIN * FishXQ - FISH_SWIM_SPEED
        /\ fish[i].y # fish[i].base_y

\* the fish that leave the swimming state on this step
Leaping == {i \in 1 .. FISH_COUNT : fish[i].swimming /\ fish'[i].jumping}

\* fish i is in the air and its next update() reaches base_y
Touching(i) ==
    fish[i].jumping /\ fish[i].y + fish[i].jump_velocity >= fish[i].base_y

\* C23: every fish has exactly one of swimming and jumping set, swimming
\* after construction; on an update_all a fish goes from swimming to
\* jumping exactly when its jump trial succeeds (as many fish as trials
\* succeeded), and from jumping to swimming exactly when that update()
\* reaches base_y, where it is put.
C23_SwimXorJump ==
    /\ [](\A i \in 1 .. FISH_COUNT :
             /\ fish[i].swimming <=> ~fish[i].jumping
             /\ ticks = 0 => fish[i].swimming)
    /\ [][ticks' = ticks + 1 =>
            /\ Cardinality(Leaping) = hist'.jumps - hist.jumps
            /\ \A i \in 1 .. FISH_COUNT :
                  /\ (fish[i].jumping /\ fish'[i].swimming) <=> Touching(i)
                  /\ Touching(i) => fish'[i].y = fish'[i].base_y]_vars

\* C23 witness: one fish is in the air on the last jump of the run, its
\* swimming flag clear, and the other one has landed from an earlier jump
\* and swims
C23_Witness ==
    \E i, j \in 1 .. FISH_COUNT :
        /\ hist.jumps = MaxJumps
        /\ fish[i].jumping /\ ~fish[i].swimming
        /\ fish[j].swimming /\ ~fish[j].jumping
        /\ JumpCalls(fish[j]) = JumpCallsBound

\* C24: an update() of a jumping fish leaves x, direction, swim_offset and
\* base_y as they were and adds the gravity to jump_velocity, so no jump
\* starts; jump_velocity becomes -6.0 only on a step from swimming to
\* jumping; an update() of a swimming fish whose trial fails leaves
\* jump_velocity as it was.
C24_FishFrame ==
    [][ticks' = ticks + 1 =>
        \A i \in 1 .. FISH_COUNT :
            /\ fish[i].jumping =>
                  /\ fish'[i].x = fish[i].x
                  /\ fish'[i].direction = fish[i].direction
                  /\ fish'[i].swim_offset = fish[i].swim_offset
                  /\ fish'[i].base_y = fish[i].base_y
                  /\ fish'[i].jump_velocity =
                        fish[i].jump_velocity + FISH_JUMP_GRAVITY
                  /\ fish'[i].jump_velocity > FISH_JUMP_VELOCITY
            /\ (/\ fish'[i].jump_velocity = FISH_JUMP_VELOCITY
                /\ fish[i].jump_velocity # FISH_JUMP_VELOCITY)
                  => i \in Leaping
            /\ (fish[i].swimming /\ (i \notin Leaping \/
                                      hist'.jumps = hist.jumps))
                  => fish'[i].jump_velocity = fish[i].jump_velocity
       ]_vars

\* C24 witness: one fish is at the top of its jump after 20 update() calls
\* in the air, the other one has been swimming all along with the
\* jump_velocity of its construction
C24_Witness ==
    \E i, j \in 1 .. FISH_COUNT :
        /\ fish[i].jumping
        /\ fish[i].jump_velocity = 0
        /\ fish[j].swimming
        /\ fish[j].jump_velocity = 0
        /\ ticks > 20

====
